---- MODULE Spec2Model ----
(***************************************************************************)
(* Book service of qlp-project-5cfbb90e.                                   *)
(*                                                                         *)
(* Two programs share the repository:                                      *)
(*   - src/src/routers.py: book_router, five handlers over the global      *)
(*     list `books` (dicts), no authentication;                            *)
(*   - the application embedded in src/tests/test_services.py ("code"):    *)
(*     the same five handlers behind get_current_user, plus create_user,   *)
(*     login and rate_limit.                                               *)
(*                                                                         *)
(* Spec      the router of routers.py, one action per handler.             *)
(* SpecApp   the application of test_services.py, one action per handler   *)
(*           and a clock.                                                  *)
(* SpecAuth  create_user and login of test_services.py over every          *)
(*           username, password and salt.                                  *)
(* SpecRate  rate_limit of test_services.py, applied request by request.   *)
(* SpecRace  create_book of routers.py run by concurrent worker threads,   *)
(*           split at the read of len(books).                              *)
(*                                                                         *)
(* Python values: an Optional is a sequence of length at most one          *)
(* (None == <<>>, Some(x) == <<x>>); a str is the sequence of its          *)
(* characters.  The Book that routers.py imports (`from models import      *)
(* Book`) has to carry id, title, author and description, which is the     *)
(* Book of test_services.py lines 17-27; that class is used for both       *)
(* programs.                                                               *)
(***************************************************************************)
EXTENDS Integers, Sequences, FiniteSets, TLC

VARIABLES
    books,      \* the global list `books` (routers.py:4, test_services.py:47)
    users,      \* the global list `users` (test_services.py:48)
    now,        \* datetime.utcnow(), counted in ticks of 1/TicksPerHour hour
    cache,      \* lru_cache of get_request_count: the set of cached ips
    sent,       \* history: requests sent so far, per client ip
    created,    \* history: ids handed out by successful creates, in order
    deleted,    \* history: ids whose book a delete removed
    last,       \* history: the last request and its response
    pc,         \* SpecRace: position of each worker thread in create_book
    local       \* SpecRace: each thread's request body (book) so far

vars == <<books, users, now, cache, sent, created, deleted, last, pc, local>>

-----------------------------------------------------------------------------
(* Bounds of the model *)

MaxBooks == 2
MaxUsers == 2
MaxTime == 4
TicksPerHour == 2
NumSalts == 2
NumThreads == 3
MaxRequests == 101

(* Constants of the program *)

TitleMax == 100
AuthorMax == 50
DescriptionMax == 500
RateMax == 100
ExpiryHours == 1

-----------------------------------------------------------------------------
(* Python values *)

None == <<>>
Some(x) == <<x>>

Str(n, c) == [i \in 1..n |-> c]

\* str.strip(): leading and trailing blanks removed
RECURSIVE lstrip(_)
lstrip(s) == IF s # <<>> /\ Head(s) = " " THEN lstrip(Tail(s)) ELSE s

RECURSIVE rstrip(_)
rstrip(s) ==
    IF s # <<>> /\ s[Len(s)] = " " THEN rstrip(SubSeq(s, 1, Len(s) - 1)) ELSE s

strip(s) == rstrip(lstrip(s))

-----------------------------------------------------------------------------
(* Book, and the request bodies the model sends *)

\* @validator('title'): raise ValueError when the stripped title is empty
title_not_empty(value) == strip(value) # <<>>

\* Book(**body) as FastAPI builds it from a request body: TRUE when it parses
BookParses(body) == title_not_empty(body.title)

Body(i, t, a, d) == [id |-> i, title |-> t, author |-> a, description |-> d]

BodyAtLimits == Body(None, Str(TitleMax, "a"), Str(AuthorMax, "x"), Some(Str(DescriptionMax, "d")))
BodyShort    == Body(None, Str(1, "b"), Str(1, "y"), Some(Str(1, "e")))
BodyOther    == Body(None, Str(2, "c"), Str(1, "y"), Some(Str(1, "f")))
BodyNoDesc   == Body(None, Str(1, "c"), Str(1, "y"), None)
BodyTitle101 == Body(None, Str(TitleMax + 1, "a"), Str(1, "x"), Some(Str(1, "d")))
BodyAuthor51 == Body(None, Str(1, "a"), Str(AuthorMax + 1, "x"), Some(Str(1, "d")))
BodyDesc501  == Body(None, Str(1, "a"), Str(1, "x"), Some(Str(DescriptionMax + 1, "d")))
BodyBlank    == Body(None, Str(2, " "), Str(1, "x"), Some(Str(1, "d")))

CreateBodies ==
    {BodyAtLimits, BodyShort, BodyNoDesc, BodyTitle101, BodyAuthor51, BodyDesc501, BodyBlank}

\* a PUT body may carry an id of its own, or none
UpdateBodies ==
    {[b EXCEPT !.id = i] : b \in {BodyAtLimits, BodyShort}, i \in {None, Some(1)}}

BookIds == 1..(MaxBooks + 1)

BookOps == {"create_book", "get_books", "get_book", "update_book", "delete_book"}

\* index of the first element of list bs whose id is book_id, 0 when none
FirstIndex(bs, book_id) ==
    IF \E i \in DOMAIN bs : bs[i].id = Some(book_id)
    THEN CHOOSE i \in DOMAIN bs :
            /\ bs[i].id = Some(book_id)
            /\ \A j \in 1..(i - 1) : bs[j].id # Some(book_id)
    ELSE 0

\* del bs[i]
DelAt(bs, i) == SubSeq(bs, 1, i - 1) \o SubSeq(bs, i + 1, Len(bs))

-----------------------------------------------------------------------------
(* routers.py: book_router over the global list `books` *)

MaxCreates == MaxBooks + 1

\* the comparison of routers.py:11 with >= in place of >
TitleTooLongGe(book) == Len(book.title) >= TitleMax

\* routers.py:11
TitleTooLong(book) == Len(book.title) > TitleMax

\* routers.py:11-16: the status the input validation raises, 0 when it passes.
\* len(None) raises TypeError, which global_error_handler turns into 500.
Validate(book) ==
    IF TitleTooLong(book) THEN 400
    ELSE IF Len(book.author) > AuthorMax THEN 400
    ELSE IF book.description = None THEN 500
    ELSE IF Len(book.description[1]) > DescriptionMax THEN 400
    ELSE 0

\* routers.py:18 without the + 1
NextIdOffByOne(bs) == Len(bs)

\* routers.py:18
NextId(bs) == Len(bs) + 1

\* routers.py:9-20
CreateBook(bs, book) ==
    IF ~BookParses(book) THEN [status |-> 422, books |-> bs, id |-> None]
    ELSE IF Validate(book) # 0 THEN [status |-> Validate(book), books |-> bs, id |-> None]
    ELSE LET stored == [book EXCEPT !.id = Some(NextId(bs))]
         IN  [status |-> 201, books |-> Append(bs, stored), id |-> stored.id]

\* routers.py:27-31
GetBook(bs, book_id) ==
    LET i == FirstIndex(bs, book_id)
    IN  IF i = 0 THEN [status |-> 404, book |-> None]
        ELSE [status |-> 200, book |-> Some(bs[i])]

\* routers.py:37: books[i] = book.dict(), the id of the body included
Replace(bs, i, book) == [bs EXCEPT ![i] = book]

\* routers.py:34-39
UpdateBook(bs, book_id, book) ==
    LET i == FirstIndex(bs, book_id)
    IN  IF ~BookParses(book) THEN [status |-> 422, books |-> bs, book |-> None]
        ELSE IF i = 0 THEN [status |-> 404, books |-> bs, book |-> None]
        ELSE [status |-> 200, books |-> Replace(bs, i, book), book |-> Some(book)]

\* routers.py:42-48
DeleteBook(bs, book_id) ==
    LET i == FirstIndex(bs, book_id)
    IN  IF i = 0 THEN [status |-> 404, books |-> bs]
        ELSE [status |-> 204, books |-> DelAt(bs, i)]

Response(op, status, id, book, changed) ==
    [op |-> op, status |-> status, id |-> id, book |-> book, changed |-> changed]

NoRequest == Response("none", 0, None, None, FALSE)

create_book(book) ==
    LET r == CreateBook(books, book)
    IN  /\ r.status = 201 => Len(books) < MaxBooks /\ Len(created) < MaxCreates
        /\ books' = r.books
        /\ created' = IF r.status = 201 THEN Append(created, r.id[1]) ELSE created
        /\ last' = Response("create_book", r.status, r.id, Some(book), r.books # books)
        /\ UNCHANGED <<users, now, cache, sent, deleted, pc, local>>

get_books ==
    /\ last' = Response("get_books", 200, None, None, FALSE)
    /\ UNCHANGED <<books, users, now, cache, sent, created, deleted, pc, local>>

get_book(book_id) ==
    LET r == GetBook(books, book_id)
    IN  /\ last' = Response("get_book", r.status, Some(book_id), r.book, FALSE)
        /\ UNCHANGED <<books, users, now, cache, sent, created, deleted, pc, local>>

update_book(book_id, book) ==
    LET r == UpdateBook(books, book_id, book)
    IN  /\ books' = r.books
        /\ last' = Response("update_book", r.status, Some(book_id), Some(book), r.books # books)
        /\ UNCHANGED <<users, now, cache, sent, created, deleted, pc, local>>

delete_book(book_id) ==
    LET r == DeleteBook(books, book_id)
    IN  /\ books' = r.books
        /\ deleted' = IF r.status = 204 THEN deleted \cup {book_id} ELSE deleted
        /\ last' = Response("delete_book", r.status, Some(book_id), None, r.books # books)
        /\ UNCHANGED <<users, now, cache, sent, created, pc, local>>

-----------------------------------------------------------------------------
(* test_services.py: users, password hashing, tokens, the rate check *)

Usernames == {"alice", "bob"}

\* plaintext passwords; each is shorter than a bcrypt hash
Passwords == {<<"p", "1">>, <<"p", "2">>}

\* the outcomes of bcrypt.gensalt(rounds=12)
Salts == 1..NumSalts

Ips == {"10.0.0.1", "10.0.0.2"}
AppIp == "10.0.0.1"
AppPassword == <<"p", "1">>

\* bcrypt.hashpw(password, salt): the salt and the digest of (salt, password)
hashpw(password, salt) == <<"$2b$12$", salt, password>>

\* bcrypt.checkpw(password, hashed): rehash with the salt embedded in `hashed`
checkpw(password, hashed) == hashpw(password, hashed[2]) = hashed

\* User(**body), test_services.py:29-44: the password validator replaces the
\* password by its hash every time a User is built from a request body
User(username, password, salt) ==
    [id |-> None, username |-> username, password |-> hashpw(password, salt)]

\* next((u for u in us if u.username == username), None)
FindUser(us, username) ==
    IF \E i \in DOMAIN us : us[i].username = username
    THEN Some(us[CHOOSE i \in DOMAIN us :
                    /\ us[i].username = username
                    /\ \A j \in 1..(i - 1) : us[j].username # username])
    ELSE None

JWT_SECRET == "JWT_SECRET"

\* timedelta(hours=1), in ticks
Lifetime == ExpiryHours * TicksPerHour

\* jwt.encode(payload, key, algorithm="HS256")
jwt_encode(sub, exp, key) == [form |-> "jwt", sub |-> sub, exp |-> exp, key |-> key]

MissingToken == [form |-> "missing", sub |-> "", exp |-> 0, key |-> ""]
MalformedToken == [form |-> "malformed", sub |-> "", exp |-> 0, key |-> ""]

\* test_services.py:133-135: the token login issues for username at time t
IssueToken(username, t) == jwt_encode(username, t + Lifetime, JWT_SECRET)

IssueTimes == 0..1

\* the tokens a request may present
Tokens ==
    {MissingToken, MalformedToken}
    \cup {jwt_encode("alice", Lifetime, "forged")}
    \cup {IssueToken(u, t) : u \in Usernames, t \in IssueTimes}

\* jwt.decode with options={"verify_exp": False}
jwt_decode_no_exp(token, t) ==
    IF token.form # "jwt" THEN [error |-> "DecodeError"]
    ELSE IF token.key # JWT_SECRET THEN [error |-> "InvalidSignatureError"]
    ELSE [error |-> "", sub |-> token.sub]

\* jwt.decode(token, JWT_SECRET, algorithms=["HS256"]) at time t: the payload,
\* or the InvalidTokenError it raises (PyJWT: expired when exp <= now)
jwt_decode(token, t) ==
    IF token.form # "jwt" THEN [error |-> "DecodeError"]
    ELSE IF token.key # JWT_SECRET THEN [error |-> "InvalidSignatureError"]
    ELSE IF token.exp <= t THEN [error |-> "ExpiredSignatureError"]
    ELSE [error |-> "", sub |-> token.sub]

\* test_services.py:62-71
get_current_user(token, us, t) ==
    LET payload == jwt_decode(token, t)
    IN  IF payload.error # "" THEN [status |-> 401, user |-> None]
        ELSE IF FindUser(us, payload.sub) = None THEN [status |-> 401, user |-> None]
        ELSE [status |-> 200, user |-> FindUser(us, payload.sub)]

\* test_services.py:51-53: get_request_count under lru_cache: the value
\* returned and the cache afterwards
get_request_count(c, ip) == [count |-> 1, cache |-> c \cup {ip}]

\* test_services.py:55-59
RateLimit(c, ip) ==
    LET r == get_request_count(c, ip)
    IN  IF r.count > RateMax THEN [status |-> 429, cache |-> r.cache]
        ELSE [status |-> 0, cache |-> {}]

-----------------------------------------------------------------------------
(* test_services.py: the application's handlers *)

AppBookOps ==
    {"app_create_book", "app_get_books", "app_get_book", "app_update_book", "app_delete_book"}

AppBookIds == 1..MaxBooks
AppCreateBodies == {BodyShort, BodyBlank}
AppUpdateBodies == {Body(Some(1), Str(1, "u"), Str(1, "z"), None)}

\* test_services.py:104-111: the three fields are assigned, the id stays
AssignFields(bs, i, book) ==
    [bs EXCEPT ![i] = [@ EXCEPT !.title = book.title, !.author = book.author,
                                !.description = book.description]]

\* The dependencies run first, rate_limit then get_current_user; then the
\* body is parsed (422); then the handler body, whose outcome is `run`.
Gate(ip, token, parses, run) ==
    LET rate == RateLimit(cache, ip)
        auth == get_current_user(token, users, now)
    IN  IF rate.status # 0
        THEN [status |-> rate.status, books |-> books, user |-> None, cache |-> rate.cache]
        ELSE IF auth.status # 200
        THEN [status |-> auth.status, books |-> books, user |-> None, cache |-> rate.cache]
        ELSE IF ~parses
        THEN [status |-> 422, books |-> books, user |-> auth.user, cache |-> rate.cache]
        ELSE [status |-> run.status, books |-> run.books, user |-> auth.user, cache |-> rate.cache]

AppRecord(op, token, g) ==
    [op |-> op, status |-> g.status, changed |-> g.books # books, token |-> token,
     user |-> g.user]

\* test_services.py:86-90
app_create_book(ip, token, book) ==
    LET stored == [book EXCEPT !.id = Some(Len(books) + 1)]
        g == Gate(ip, token, BookParses(book),
                  [status |-> 200, books |-> Append(books, stored)])
    IN  /\ Len(books) < MaxBooks
        /\ cache' = g.cache
        /\ books' = g.books
        /\ last' = AppRecord("app_create_book", token, g)
        /\ UNCHANGED <<users, now, sent, created, deleted, pc, local>>

\* test_services.py:92-94
app_get_books(ip, token) ==
    LET g == Gate(ip, token, TRUE, [status |-> 200, books |-> books])
    IN  /\ cache' = g.cache
        /\ last' = AppRecord("app_get_books", token, g)
        /\ UNCHANGED <<books, users, now, sent, created, deleted, pc, local>>

\* test_services.py:96-101
app_get_book(ip, token, book_id) ==
    LET i == FirstIndex(books, book_id)
        g == Gate(ip, token, TRUE,
                  [status |-> IF i = 0 THEN 404 ELSE 200, books |-> books])
    IN  /\ cache' = g.cache
        /\ last' = AppRecord("app_get_book", token, g)
        /\ UNCHANGED <<books, users, now, sent, created, deleted, pc, local>>

\* test_services.py:103-111
app_update_book(ip, token, book_id, book) ==
    LET i == FirstIndex(books, book_id)
        g == Gate(ip, token, BookParses(book),
                  IF i = 0 THEN [status |-> 404, books |-> books]
                  ELSE [status |-> 200, books |-> AssignFields(books, i, book)])
    IN  /\ cache' = g.cache
        /\ books' = g.books
        /\ last' = AppRecord("app_update_book", token, g)
        /\ UNCHANGED <<users, now, sent, created, deleted, pc, local>>

\* test_services.py:113-119
app_delete_book(ip, token, book_id) ==
    LET i == FirstIndex(books, book_id)
        g == Gate(ip, token, TRUE,
                  IF i = 0 THEN [status |-> 404, books |-> books]
                  ELSE [status |-> 200, books |-> DelAt(books, i)])
    IN  /\ cache' = g.cache
        /\ books' = g.books
        /\ last' = AppRecord("app_delete_book", token, g)
        /\ UNCHANGED <<users, now, sent, created, deleted, pc, local>>

\* test_services.py:121-125
create_user(ip, username, password, salt) ==
    LET rate == RateLimit(cache, ip)
        user == [User(username, password, salt) EXCEPT !.id = Some(Len(users) + 1)]
    IN  /\ Len(users) < MaxUsers
        /\ cache' = rate.cache
        /\ users' = IF rate.status # 0 THEN users ELSE Append(users, user)
        /\ last' = [op |-> "create_user", status |-> IF rate.status # 0 THEN rate.status ELSE 200,
                    username |-> username, password |-> password, token |-> MissingToken]
        /\ UNCHANGED <<books, now, sent, created, deleted, pc, local>>

\* test_services.py:127-136
Login(us, username, password, salt, t) ==
    LET user == User(username, password, salt)
        existing_user == FindUser(us, user.username)
    IN  IF existing_user = None \/ ~checkpw(user.password, existing_user[1].password)
        THEN [status |-> 401, token |-> MissingToken]
        ELSE [status |-> 200, token |-> IssueToken(user.username, t)]

login(ip, username, password, salt) ==
    LET rate == RateLimit(cache, ip)
        r == Login(users, username, password, salt, now)
    IN  /\ cache' = rate.cache
        /\ last' = [op |-> "login", status |-> IF rate.status # 0 THEN rate.status ELSE r.status,
                    username |-> username, password |-> password,
                    token |-> IF rate.status # 0 THEN MissingToken ELSE r.token]
        /\ UNCHANGED <<books, users, now, sent, created, deleted, pc, local>>

\* datetime.utcnow() advances between requests
Tick ==
    /\ now < MaxTime
    /\ now' = now + 1
    /\ last' = NoRequest
    /\ UNCHANGED <<books, users, cache, sent, created, deleted, pc, local>>

-----------------------------------------------------------------------------
(* The rate check, request by request *)

\* one request of client ip reaches the rate check (test_services.py:55-59)
rate_limit(ip) ==
    LET r == RateLimit(cache, ip)
    IN  /\ sent[ip] < MaxRequests
        /\ sent' = [sent EXCEPT ![ip] = @ + 1]
        /\ cache' = r.cache
        /\ last' = [op |-> "rate_limit", status |-> IF r.status = 0 THEN 200 ELSE r.status,
                    detail |-> IF r.status = 429 THEN "Too many requests" ELSE "",
                    ip |-> ip, n |-> sent[ip] + 1]
        /\ UNCHANGED <<books, users, now, created, deleted, pc, local>>

-----------------------------------------------------------------------------
(* create_book of routers.py on concurrent worker threads.  FastAPI runs a  *)
(* `def` handler on a thread pool; the interpreter may switch threads       *)
(* between line 18 (book.id = len(books) + 1) and line 19 (books.append).   *)

Threads == 1..NumThreads

RaceBodies == {BodyShort, BodyOther, BodyTitle101}

NoCreate == [book |-> None, status |-> 0, during |-> {}]

\* routers.py:19 dropped: the book is returned and never appended
StoreNothing(bs, book) == bs

\* routers.py:19
Store(bs, book) == Append(bs, book)

\* routers.py:11-18: validate, then read len(books) into book.id.  `during`
\* records the threads that had read len(books) and not yet appended.
race_assign_id(t, book) ==
    /\ pc[t] = "start"
    /\ BookParses(book)
    /\ IF Validate(book) # 0
       THEN /\ pc' = [pc EXCEPT ![t] = "done"]
            /\ local' = [local EXCEPT ![t] = [book |-> Some(book), status |-> Validate(book),
                                              during |-> {}]]
       ELSE /\ pc' = [pc EXCEPT ![t] = "append"]
            /\ local' = [local EXCEPT ![t] =
                            [book |-> Some([book EXCEPT !.id = Some(NextId(books))]),
                             status |-> 0,
                             during |-> {u \in Threads : pc[u] = "append"}]]
    /\ UNCHANGED <<books, users, now, cache, sent, created, deleted, last>>

\* routers.py:19-20
race_append(t) ==
    /\ pc[t] = "append"
    /\ books' = Store(books, local[t].book[1])
    /\ pc' = [pc EXCEPT ![t] = "done"]
    /\ local' = [local EXCEPT ![t].status = 201]
    /\ UNCHANGED <<users, now, cache, sent, created, deleted, last>>

Init ==
    /\ books = <<>>
    /\ users = <<>>
    /\ now = 0
    /\ cache = {}
    /\ sent = [ip \in Ips |-> 0]
    /\ created = <<>>
    /\ deleted = {}
    /\ last = NoRequest
    /\ pc = [t \in Threads |-> "start"]
    /\ local = [t \in Threads |-> NoCreate]

Next ==
    \/ \E book \in CreateBodies : create_book(book)
    \/ get_books
    \/ \E book_id \in BookIds : get_book(book_id)
    \/ \E book_id \in BookIds, book \in UpdateBodies : update_book(book_id, book)
    \/ \E book_id \in BookIds : delete_book(book_id)

Spec == Init /\ [][Next]_vars

\* SpecApp sends one password and one salt; SpecAuth below sends them all
NextApp ==
    \/ \E token \in Tokens, book \in AppCreateBodies : app_create_book(AppIp, token, book)
    \/ \E token \in Tokens : app_get_books(AppIp, token)
    \/ \E token \in Tokens, book_id \in AppBookIds : app_get_book(AppIp, token, book_id)
    \/ \E token \in Tokens, book_id \in AppBookIds, book \in AppUpdateBodies :
            app_update_book(AppIp, token, book_id, book)
    \/ \E token \in Tokens, book_id \in AppBookIds : app_delete_book(AppIp, token, book_id)
    \/ \E username \in Usernames : create_user(AppIp, username, AppPassword, 1)
    \/ \E username \in Usernames : login(AppIp, username, AppPassword, 1)
    \/ Tick

SpecApp == Init /\ [][NextApp]_vars

\* the credential handlers alone, over every username, password and salt
NextAuth ==
    \/ \E ip \in Ips, username \in Usernames, password \in Passwords, salt \in Salts :
            create_user(ip, username, password, salt)
    \/ \E ip \in Ips, username \in Usernames, password \in Passwords, salt \in Salts :
            login(ip, username, password, salt)

SpecAuth == Init /\ [][NextAuth]_vars

NextRate == \E ip \in Ips : rate_limit(ip)

SpecRate == Init /\ [][NextRate]_vars

NextRace ==
    \/ \E t \in Threads, book \in RaceBodies : race_assign_id(t, book)
    \/ \E t \in Threads : race_append(t)

SpecRace == Init /\ [][NextRace]_vars

-----------------------------------------------------------------------------
(* Properties *)

Range(f) == {f[i] : i \in DOMAIN f}

\* C1: book ids are unique: no two stored books have the same id, in every
\* state create, update and delete can reach.
C1_UniqueIds ==
    \A i, j \in DOMAIN books : i # j => books[i].id # books[j].id

\* C2: from the empty collection, as long as nothing has been deleted, the
\* k-th successful create was given id k.
C2_CreatedInOrder ==
    deleted = {} => \A k \in DOMAIN created : created[k] = k

C2_Witness ==
    /\ last.op = "create_book"
    /\ last.status = 201
    /\ deleted = {}
    /\ Len(created) = MaxBooks

\* C3: after a successful update(i, candidate) the stored book still has id i
\* and carries the candidate's other fields, and get(i) returns exactly that.
C3_UpdateKeepsId ==
    last.op = "update_book" /\ last.status = 200
        => GetBook(books, last.id[1])
            = [status |-> 200, book |-> Some([last.book[1] EXCEPT !.id = last.id])]

\* C4: get(id) answers 404 for every id no create ever assigned and for every
\* id whose book a delete removed.
C4_GoneIdsNotFound ==
    \A id \in BookIds :
        id \notin Range(created) \/ id \in deleted => GetBook(books, id).status = 404

\* C5: of the requests one client sends, each of the first 100 passes the
\* rate check and the 101st is answered 429 "Too many requests".
C5_RateLimited ==
    last.op = "rate_limit" =>
        /\ last.n <= RateMax => last.status # 429
        /\ last.n = RateMax + 1 => last.status = 429 /\ last.detail = "Too many requests"

\* C6: a login with a registered (username, password) is answered 200 with a
\* token whose subject is that username; any other login is answered 401.
C6_LoginContract ==
    last.op = "login" =>
        IF \E i \in DOMAIN users :
                /\ users[i].username = last.username
                /\ checkpw(last.password, users[i].password)
        THEN last.status = 200 /\ last.token.form = "jwt" /\ last.token.sub = last.username
        ELSE last.status = 401

IssuedTokens == {IssueToken(u, t) : u \in Usernames, t \in IssueTimes}

C7_Resolves ==
    /\ last.op \in AppBookOps
    /\ last.token \in IssuedTokens
    /\ FindUser(users, last.token.sub) # None
    => /\ now < last.token.exp =>
            /\ last.status # 401
            /\ last.user # None
            /\ last.user[1].username = last.token.sub
       /\ now > last.token.exp => last.status = 401 /\ last.user = None

C7_StaysExpired ==
    \A tok \in IssuedTokens, t \in 0..now :
        jwt_decode(tok, t).error = "ExpiredSignatureError"
            => get_current_user(tok, users, now).status = 401

C8_BooksBehindAuth ==
    /\ last.op \in AppBookOps /\ get_current_user(last.token, users, now).status = 401
        => last.status = 401 /\ ~last.changed
    /\ last.op \in BookOps =>
        \A token \in Tokens :
            get_current_user(token, users, now).status = 401
                => last.status = 401 /\ ~last.changed

Overlapped(t, u) == t \in local[u].during \/ u \in local[t].during

Stored(t) == pc[t] = "done" /\ local[t].status = 201

\* C10: two creates that ran one after the other stored different ids; two
\* stored books get the same id only when one create read len(books) while
\* the other had read it and not yet appended.
C10_SequentialIdsDiffer ==
    \A t, u \in Threads :
        t # u /\ Stored(t) /\ Stored(u) /\ ~Overlapped(t, u)
            => local[t].book[1].id # local[u].book[1].id

C10_Witness ==
    \E t, u \in Threads :
        /\ t # u /\ Stored(t) /\ Stored(u) /\ Overlapped(t, u)
        /\ local[t].book[1].id = local[u].book[1].id
        /\ \E i, j \in DOMAIN books :
                i # j /\ books[i].id = books[j].id /\ books[i].id = local[t].book[1].id

====
